---- MODULE Spec2Model ----
(***************************************************************************)
(* Model of src/main.ts of the Obsidian Penrose plugin: the annotation     *)
(* parser (extractMetadata), the trio assembler (getTrio) with the         *)
(* readFile callback the code-block processor injects, the compile /       *)
(* optimize / toSVG pipeline of the code-block processor, and the alias    *)
(* editing handlers of the settings tab.                                   *)
(*                                                                         *)
(* Strings are sequences of tokens: "" is <<>>, s.trim() strips the        *)
(* whitespace tokens at both ends, and a document is the token sequence    *)
(* of its lines joined by the "\n" token.                                  *)
(***************************************************************************)
EXTENDS Integers, Sequences, FiniteSets, TLC

VARIABLES
    aliases,    \* this.plugin.settings.aliases of the plugin (AliasConfig)
    saved,      \* what saveData last persisted
    rows,       \* alias rows the settings tab currently shows
    source,     \* the code block's text
    pc,         \* position of the code-block processor
    idx,        \* index of the next line lines.forEach hands to its callback
    domain,     \* extractMetadata's accumulators
    style,
    variation,
    aliasName,
    rejected,   \* per-line callbacks whose promise was rejected
    res,        \* <<>> or <<the Meta extractMetadata returned>>
    order,      \* order in which the two readFile calls are issued
    vault,      \* what the vault holds at the paths read so far
    calls,      \* the readFile calls made, in order
    got,        \* the values the readFile calls resolved to, by call site
    trio,       \* <<>> or <<the Trio getTrio returned>>
    el,         \* children appended to the block's element
    console,    \* console.error calls
    stages,     \* pipeline stages attempted
    compiled,   \* outcome of compile
    optimized   \* outcome of optimize

settingsVars == <<aliases, saved, rows>>
parserVars == <<idx, domain, style, variation, aliasName, rejected, res>>
fetchVars == <<vault, calls, got, trio>>
stageVars == <<stages, compiled, optimized>>
vars == <<aliases, saved, rows, source, pc, idx, domain, style, variation,
          aliasName, rejected, res, order, vault, calls, got, trio, el,
          console, stages, compiled, optimized>>

(***************************************************************************)
(* Bounds                                                                  *)
(***************************************************************************)
MaxLines == 2
MaxAliases == 3

(***************************************************************************)
(* Strings                                                                 *)
(***************************************************************************)
NL == "\n"

IsSpace(t) == t = " "

RECURSIVE TrimStart(_)
TrimStart(s) ==
    IF s # <<>> /\ IsSpace(Head(s)) THEN TrimStart(Tail(s)) ELSE s

RECURSIVE TrimEnd(_)
TrimEnd(s) ==
    IF s # <<>> /\ IsSpace(s[Len(s)]) THEN TrimEnd(SubSeq(s, 1, Len(s) - 1)) ELSE s

\* String.prototype.trim
Trim(s) == TrimEnd(TrimStart(s))

\* substance.split("\n"): always at least one line
RECURSIVE SplitFrom(_, _)
SplitFrom(s, cur) ==
    IF s = <<>> THEN <<cur>>
    ELSE IF Head(s) = NL THEN <<cur>> \o SplitFrom(Tail(s), <<>>)
    ELSE SplitFrom(Tail(s), Append(cur, Head(s)))

Split(s) == SplitFrom(s, <<>>)

RECURSIVE Join(_)
Join(ls) ==
    IF Len(ls) = 0 THEN <<>>
    ELSE IF Len(ls) = 1 THEN ls[1]
    ELSE LET rest == Join(Tail(ls)) IN Append(ls[1], NL) \o rest

(***************************************************************************)
(* The four regular expressions (--, whitespace, tag, rest) and line.match *)
(***************************************************************************)
RECURSIVE SkipSpaces(_, _)
SkipSpaces(line, i) ==
    IF i <= Len(line) /\ IsSpace(line[i]) THEN SkipSpaces(line, i + 1) ELSE i

\* the pattern matches with its "--" at position i
MatchAt(line, i, tag) ==
    /\ line[i] = "--"
    /\ LET j == SkipSpaces(line, i + 1)
       IN  j <= Len(line) /\ line[j] = tag

MatchStarts(line, tag) == {i \in 1..Len(line) : MatchAt(line, i, tag)}

MinOf(S) == CHOOSE x \in S : \A y \in S : x <= y

\* line.match(re): unanchored, leftmost match, group 1 is the rest of the line
RegexMatch(line, tag) ==
    IF MatchStarts(line, tag) = {} THEN [matched |-> FALSE, group |-> <<>>]
    ELSE LET i == MinOf(MatchStarts(line, tag))
             j == SkipSpaces(line, i + 1)
         IN  [matched |-> TRUE, group |-> SubSeq(line, j + 1, Len(line))]

alias(line) == RegexMatch(line, "alias:")
domainRegex(line) == RegexMatch(line, "domain:")
styleRegex(line) == RegexMatch(line, "style:")
variationRegex(line) == RegexMatch(line, "variation:")

(***************************************************************************)
(* extractMetadata                                                         *)
(***************************************************************************)
lines == Split(source)

\* `this` in extractMetadata and in its per-line callback is the `this` of
\* the module scope (both are arrow functions at the top level of the
\* module), not the settings tab: it has no `plugin`, so evaluating
\* this.plugin.settings throws a TypeError.
ModuleThisHasPlugin == FALSE

SetFieldCrossed(acc, field, value) ==
    [acc EXCEPT ![IF field = "domain" THEN "style" ELSE field] = Trim(value)]

\* assignment of an annotation's trimmed value to a field of the accumulators
SetField(acc, field, value) == [acc EXCEPT ![field] = Trim(value)]

\* the body of the callback given to lines.forEach, run on one line. It has
\* no await, so it runs to its end (or to its throw) inside the forEach call;
\* a throw rejects the callback's promise, which nobody awaits or catches.
LineCallback(acc, line) ==
    LET am == alias(line)
        a1 == IF am.matched THEN SetField(acc, "aliasName", am.group) ELSE acc
        throws == am.matched /\ ~ModuleThisHasPlugin
        a2 == IF am.matched /\ a1.aliasName \in DOMAIN aliases
              THEN [a1 EXCEPT !.domain = aliases[a1.aliasName].domain,
                              !.style = aliases[a1.aliasName].style]
              ELSE a1
        dm == domainRegex(line)
        a3 == IF dm.matched THEN SetField(a2, "domain", dm.group) ELSE a2
        sm == styleRegex(line)
        a4 == IF sm.matched THEN SetField(a3, "style", sm.group) ELSE a3
        vm == variationRegex(line)
        a5 == IF vm.matched THEN SetField(a4, "variation", vm.group) ELSE a4
    IN  IF throws THEN [a1 EXCEPT !.rejected = @ + 1] ELSE a5

Acc == [domain |-> domain, style |-> style, variation |-> variation,
        aliasName |-> aliasName, rejected |-> rejected]

\* lines.forEach has called the callback on every line
ForEachReturnedEarly == TRUE

ForEachDone == idx > Len(lines)

ForEachLine ==
    /\ idx <= Len(lines)
    /\ LET a == LineCallback(Acc, lines[idx])
       IN  /\ domain' = a.domain
           /\ style' = a.style
           /\ variation' = a.variation
           /\ aliasName' = a.aliasName
           /\ rejected' = a.rejected
    /\ idx' = idx + 1
    /\ UNCHANGED <<settingsVars, source, pc, res, order, fetchVars, el,
                   console, stageVars>>

\* return { style, domain, variation }
ReturnMeta ==
    /\ pc = "extract"
    /\ ForEachDone
    /\ res' = <<[style |-> style, domain |-> domain, variation |-> variation]>>
    /\ pc' = "fetch"
    /\ UNCHANGED <<settingsVars, source, idx, domain, style, variation,
                   aliasName, rejected, order, fetchVars, el, console,
                   stageVars>>

(***************************************************************************)
(* getTrio and the readFile callback of the code-block processor           *)
(***************************************************************************)
Sites == {"style", "domain"}
Orders == {"styleThenDomain", "domainThenStyle", "concurrent"}

\* what the vault can hold at a path: a readable file, a file whose read
\* fails, or nothing that is a TFile (nothing at all, or a folder)
Statuses(path) == IF path = <<>> THEN {"absent"} ELSE {"file", "unreadable", "absent"}

\* contents of the file at a path
Body(path) == <<"contents of">> \o path

Node(kind, path) == [kind |-> kind, path |-> path]

\* the value readFile resolves to
ReadResultShared(path, earlier) ==
    IF vault[path] = "file" /\ \A s \in DOMAIN earlier : earlier[s] # <<>>
    THEN Body(path) ELSE <<>>

ReadResult(path, earlier) == IF vault[path] = "file" THEN Body(path) ELSE <<>>

\* the text node readFile appends when the path is not a TFile
NotFileNodesSilent(path) == <<>>

NotFileNodes(path) == <<Node("Error reading file", path)>>

\* the argument of the readFile call at a call site of getTrio
ArgSwapped(site) == IF site = "style" THEN res[1].domain ELSE res[1].style

Arg(site) == IF site = "style" THEN res[1].style ELSE res[1].domain

MayIssue(site) ==
    \/ order = "concurrent"
    \/ order = "styleThenDomain" /\ (site = "style" \/ "style" \in DOMAIN got)
    \/ order = "domainThenStyle" /\ (site = "domain" \/ "domain" \in DOMAIN got)

Issued(site) == \E i \in 1..Len(calls) : calls[i].site = site

\* readFile(path) up to its first await: getAbstractFileByPath and, when the
\* result is not a TFile, the else branch
Issue(site) ==
    /\ pc = "fetch"
    /\ ~Issued(site)
    /\ MayIssue(site)
    /\ LET path == Arg(site)
       IN  /\ calls' = Append(calls, [site |-> site, path |-> path])
           /\ \E st \in Statuses(path) :
                /\ path \in DOMAIN vault => st = vault[path]
                /\ vault' = [p \in DOMAIN vault \cup {path} |->
                                IF p = path THEN st ELSE vault[p]]
                /\ el' = IF st = "absent" THEN el \o NotFileNodes(path) ELSE el
    /\ UNCHANGED <<settingsVars, source, pc, parserVars, order, got, trio,
                   console, stageVars>>

\* the rest of readFile (vault.read resolving or throwing) and the await of
\* getTrio on it
Complete(site) ==
    /\ pc = "fetch"
    /\ Issued(site)
    /\ site \notin DOMAIN got
    /\ LET path == Arg(site)
       IN  /\ got' = [s \in DOMAIN got \cup {site} |->
                        IF s = site THEN ReadResult(path, got) ELSE got[s]]
           /\ IF vault[path] = "unreadable"
              THEN /\ console' = Append(console, Node("Error reading file: error", path))
                   /\ el' = Append(el, Node("Error reading file: error", path))
              ELSE UNCHANGED <<console, el>>
    /\ UNCHANGED <<settingsVars, source, pc, parserVars, order, vault, calls,
                   trio, stageVars>>

TrioOfStripped(src, style_, domain_, variation_) ==
    [substance |-> Join(SelectSeq(Split(src),
                        LAMBDA l : \A t \in {"alias:", "domain:", "style:", "variation:"} :
                                       ~RegexMatch(l, t).matched)),
     style |-> style_, domain |-> domain_, variation |-> variation_]

\* the object getTrio returns
TrioOf(src, style_, domain_, variation_) ==
    [substance |-> src, style |-> style_, domain |-> domain_,
     variation |-> variation_]

ReturnTrio ==
    /\ pc = "fetch"
    /\ DOMAIN got = Sites
    /\ trio' = <<TrioOf(source, got["style"], got["domain"], res[1].variation)>>
    /\ pc' = "compile"
    /\ UNCHANGED <<settingsVars, source, parserVars, order, vault, calls, got,
                   el, console, stageVars>>

(***************************************************************************)
(* The code-block processor after getTrio                                  *)
(***************************************************************************)
Outcomes == {"ok", "err"}

AfterCompileFallThrough(outcome) == "optimize"

AfterCompile(outcome) == IF outcome = "err" THEN "done" ELSE "optimize"

AfterOptimize(outcome) == IF outcome = "err" THEN "done" ELSE "render"

Compile ==
    /\ pc = "compile"
    /\ \E outcome \in Outcomes :
        /\ compiled' = outcome
        /\ stages' = Append(stages, "compile")
        /\ pc' = AfterCompile(outcome)
        /\ IF outcome = "err"
           THEN /\ console' = Append(console, Node("compile error", <<>>))
                /\ el' = Append(el, Node("showError(compile error)", <<>>))
           ELSE UNCHANGED <<console, el>>
    /\ UNCHANGED <<settingsVars, source, parserVars, order, fetchVars, optimized>>

Optimize ==
    /\ pc = "optimize"
    /\ \E outcome \in Outcomes :
        /\ optimized' = outcome
        /\ stages' = Append(stages, "optimize")
        /\ pc' = AfterOptimize(outcome)
        /\ IF outcome = "err"
           THEN /\ console' = Append(console, Node("optimize error", <<>>))
                /\ el' = Append(el, Node("showError(optimize error)", <<>>))
           ELSE UNCHANGED <<console, el>>
    /\ UNCHANGED <<settingsVars, source, parserVars, order, fetchVars, compiled>>

Render ==
    /\ pc = "render"
    /\ stages' = Append(stages, "toSVG")
    /\ el' = Append(el, Node("svg", <<>>))
    /\ pc' = "done"
    /\ UNCHANGED <<settingsVars, source, parserVars, order, fetchVars, console,
                   compiled, optimized>>

(***************************************************************************)
(* The settings tab                                                        *)
(***************************************************************************)
EmptyTable == [k \in {} |-> [domain |-> <<>>, style |-> <<>>]]

Keys == DOMAIN aliases

\* `alias${Object.keys(this.plugin.settings.aliases).length + 1}`
newAliasName == <<"alias", ToString(Cardinality(Keys) + 1)>>

\* values typed into the Domain and Style text fields
DomainInputs == {<<>>, <<"D1">>}
StyleInputs == {<<>>, <<"S1">>}

\* addButton.onclick
AddAlias ==
    /\ Cardinality(Keys) < MaxAliases
    /\ aliases' = [k \in Keys \cup {newAliasName} |->
                      IF k = newAliasName THEN [domain |-> <<>>, style |-> <<>>]
                      ELSE aliases[k]]
    /\ saved' = aliases'
    /\ rows' = DOMAIN aliases'
    /\ UNCHANGED <<source, pc, parserVars, order, fetchVars, el, console, stageVars>>

\* deleteButton.onclick of the row of alias a
DeleteAlias(a) ==
    /\ a \in rows
    /\ aliases' = [k \in Keys \ {a} |-> aliases[k]]
    /\ saved' = aliases'
    /\ rows' = rows \ {a}
    /\ UNCHANGED <<source, pc, parserVars, order, fetchVars, el, console, stageVars>>

\* onChange of the Domain text field of the row of alias a
ChangeDomain(a, value) ==
    /\ a \in rows
    /\ a \in Keys
    /\ aliases' = [aliases EXCEPT ![a].domain = value]
    /\ saved' = aliases'
    /\ UNCHANGED <<rows, source, pc, parserVars, order, fetchVars, el, console, stageVars>>

\* onChange of the Style text field of the row of alias a
ChangeStyle(a, value) ==
    /\ a \in rows
    /\ a \in Keys
    /\ aliases' = [aliases EXCEPT ![a].style = value]
    /\ saved' = aliases'
    /\ UNCHANGED <<rows, source, pc, parserVars, order, fetchVars, el, console, stageVars>>

(***************************************************************************)
(* Documents and alias tables the runs start from                          *)
(***************************************************************************)
Ann(tag, value) == <<"--", " ", tag, " ">> \o value

DocLines ==
    { <<>>,
      <<"Set", " ", "A">>,
      Ann("alias:", <<"alias", "1">>),
      Ann("alias:", <<"zzz">>),
      Ann("domain:", <<"D2">>),
      Ann("style:", <<"S2">>),
      Ann("variation:", <<"v1">>),
      <<"--", "domain:", "D1", " ">>,
      <<"--", "x", "domain:", "D1">>,
      (Ann("domain:", <<"D2">>) \o <<" ">>) \o Ann("style:", <<"S2">>),
      (Ann("alias:", <<"alias", "1">>) \o <<" ">>) \o Ann("domain:", <<"D2">>) }

RECURSIVE SeqsUpTo(_, _)
SeqsUpTo(S, n) ==
    IF n = 0 THEN {<<>>}
    ELSE LET shorter == SeqsUpTo(S, n - 1)
         IN  shorter \cup {Append(s, x) : s \in shorter, x \in S}

Documents == {Join(ls) : ls \in SeqsUpTo(DocLines, MaxLines) \ {<<>>}}

\* the table after Add Alias and typing D1 and S1 into the new row
FooTable == [k \in {<<"alias", "1">>} |-> [domain |-> <<"D1">>, style |-> <<"S1">>]]

AliasTables == {EmptyTable, FooTable}

(***************************************************************************)
(* Specifications                                                          *)
(***************************************************************************)
RunInit ==
    /\ pc = "extract"
    /\ idx = 1
    /\ domain = <<>>
    /\ style = <<>>
    /\ variation = <<>>
    /\ aliasName = <<>>
    /\ rejected = 0
    /\ res = <<>>
    /\ vault = [p \in {} |-> "absent"]
    /\ calls = <<>>
    /\ got = [s \in {} |-> <<>>]
    /\ trio = <<>>
    /\ el = <<>>
    /\ console = <<>>
    /\ stages = <<>>
    /\ compiled = "none"
    /\ optimized = "none"

Init ==
    /\ aliases \in AliasTables
    /\ saved = aliases
    /\ rows = DOMAIN aliases
    /\ source \in Documents
    /\ order \in Orders
    /\ RunInit

Next ==
    \/ ForEachLine
    \/ ReturnMeta
    \/ \E site \in Sites : Issue(site)
    \/ \E site \in Sites : Complete(site)
    \/ ReturnTrio
    \/ Compile
    \/ Optimize
    \/ Render

\* the code-block processor as written: style is read, then domain
SeqInit == Init /\ order = "styleThenDomain"

Spec == SeqInit /\ [][Next]_vars

\* the code-block processor with the two reads issued in any order
SpecAnyOrder == Init /\ [][Next]_vars

SettingsInit ==
    /\ aliases = EmptyTable
    /\ saved = aliases
    /\ rows = DOMAIN aliases
    /\ source = <<>>
    /\ order = "styleThenDomain"
    /\ RunInit

SettingsNext ==
    \/ AddAlias
    \/ \E a \in rows : DeleteAlias(a)
    \/ \E a \in rows, v \in DomainInputs : ChangeDomain(a, v)
    \/ \E a \in rows, v \in StyleInputs : ChangeStyle(a, v)

SettingsSpec == SettingsInit /\ [][SettingsNext]_vars

(***************************************************************************)
(* Properties                                                              *)
(***************************************************************************)
Tags == {"alias:", "domain:", "style:", "variation:"}

MatchedTags(line) == {t \in Tags : RegexMatch(line, t).matched}

\* the accumulators after the callback has run on every line of ls, in order
RECURSIVE RunCallbacks(_, _)
RunCallbacks(acc, ls) ==
    IF ls = <<>> THEN acc ELSE RunCallbacks(LineCallback(acc, Head(ls)), Tail(ls))

InitialAcc == [domain |-> <<>>, style |-> <<>>, variation |-> <<>>,
               aliasName |-> <<>>, rejected |-> 0]

\* the references the positional rule gives: the last line that sets each
RECURSIVE LastSetter(_, _, _)
LastSetter(refs, ls, table) ==
    IF ls = <<>> THEN refs
    ELSE LET l == Head(ls)
             name == Trim(alias(l).group)
             r1 == IF alias(l).matched /\ name \in DOMAIN table
                   THEN [domain |-> table[name].domain, style |-> table[name].style]
                   ELSE refs
             r2 == IF domainRegex(l).matched
                   THEN [r1 EXCEPT !.domain = Trim(domainRegex(l).group)] ELSE r1
             r3 == IF styleRegex(l).matched
                   THEN [r2 EXCEPT !.style = Trim(styleRegex(l).group)] ELSE r2
         IN  LastSetter(r3, Tail(ls), table)

\* C1: the domain reference passed to readFile is the one set by the last
\* line that sets domain (a domain line, or an alias line whose name is a key
\* of the table), and the style reference the one set by the last line that
\* sets style.
C1_LastSetterWins ==
    \A i \in 1..Len(calls) :
        calls[i].path =
            LastSetter([domain |-> <<>>, style |-> <<>>], lines, aliases)[calls[i].site]

\* C2: processing an alias line whose name is not a key of the table leaves
\* the domain and style accumulators as they were and raises no error.
C2_UnknownAliasSilent ==
    [][(/\ idx' = idx + 1
        /\ alias(lines[idx]).matched
        /\ Trim(alias(lines[idx]).group) \notin DOMAIN aliases)
       => (domain' = domain /\ style' = style /\ rejected' = rejected)]_vars

ExpectedBody(path) == IF vault[path] = "file" THEN Body(path) ELSE <<>>

FailureNode(path) ==
    IF vault[path] = "absent" THEN Node("Error reading file", path)
    ELSE Node("Error reading file: error", path)

InEl(node) == \E i \in 1..Len(el) : el[i] = node

\* C3: whatever the two reads do, getTrio returns a Trio with all four
\* fields; a field whose read failed is empty and its diagnostic has been
\* appended, a field whose read succeeded holds the file's contents; each
\* call site reads once, and neither read stops the other: until the Trio is
\* returned a step of extractMetadata or getTrio is always possible.
C3_FetchFailureIsolated ==
    /\ pc = "extract" => idx <= Len(lines) \/ ForEachDone
    /\ pc = "fetch" =>
        \/ \E site \in Sites : ~Issued(site) /\ MayIssue(site)
        \/ \E site \in Sites : Issued(site) /\ site \notin DOMAIN got
        \/ DOMAIN got = Sites
    /\ Len(trio) = 1 =>
        /\ DOMAIN trio[1] = {"substance", "style", "domain", "variation"}
        /\ Len(calls) = 2
        /\ calls[1].site = "style"
        /\ calls[2].site = "domain"
        /\ \A site \in Sites :
            /\ trio[1][site] = ExpectedBody(Arg(site))
            /\ vault[Arg(site)] # "file" =>
                 trio[1][site] = <<>> /\ InEl(FailureNode(Arg(site)))

C3_Witness ==
    /\ Len(trio) = 1
    /\ vault[res[1].domain] = "unreadable"
    /\ vault[res[1].style] = "file"
    /\ trio[1].domain = <<>>
    /\ trio[1].style = Body(res[1].style)

\* C4: optimize is attempted only after compile succeeded and toSVG only
\* after optimize succeeded; a failed compile or optimize ends the run with
\* its description appended to the element and no diagram.
C4_StagesInOrder ==
    /\ Len(stages) <= 3
    /\ Len(stages) >= 1 => stages[1] = "compile" /\ Len(trio) = 1
    /\ Len(stages) >= 2 => stages[2] = "optimize" /\ compiled = "ok"
    /\ Len(stages) >= 3 => stages[3] = "toSVG" /\ optimized = "ok"
    /\ compiled = "err" =>
        /\ pc = "done"
        /\ stages = <<"compile">>
        /\ el[Len(el)] = Node("showError(compile error)", <<>>)
    /\ optimized = "err" =>
        /\ pc = "done"
        /\ stages = <<"compile", "optimize">>
        /\ el[Len(el)] = Node("showError(optimize error)", <<>>)
    /\ (compiled = "err" \/ optimized = "err") => ~InEl(Node("svg", <<>>))

C4_Witness ==
    /\ pc = "done"
    /\ compiled = "ok"
    /\ optimized = "err"
    /\ stages = <<"compile", "optimize">>

\* C5: the substance of the Trio is the code block's text, unchanged.
C5_SubstanceVerbatim ==
    Len(trio) = 1 => trio[1].substance = source

C5_Witness ==
    /\ Len(trio) = 1
    /\ Len(lines) = 2
    /\ \A i \in 1..Len(lines) : MatchedTags(lines[i]) # {}
    /\ trio[1].substance = source

\* C6: getTrio calls readFile exactly twice, with the style reference and
\* with the domain reference of the Meta; a document of one domain line and
\* one style line reads exactly those two; a document without annotations
\* gives an empty Meta, two reads of the empty reference and a Trio with
\* empty domain and style.
C6_TwoFetches ==
    /\ Len(calls) <= 2
    /\ Len(trio) = 1 =>
        calls = <<[site |-> "style", path |-> res[1].style],
                  [site |-> "domain", path |-> res[1].domain]>>
    /\ \A d \in {<<"D1">>, <<"D2">>}, s \in {<<"S1">>, <<"S2">>} :
        (Len(trio) = 1 /\ lines = <<Ann("domain:", d), Ann("style:", s)>>) =>
            {calls[i].path : i \in 1..Len(calls)} = {d, s}
    /\ (Len(res) = 1 /\ \A i \in 1..Len(lines) : MatchedTags(lines[i]) = {}) =>
        /\ res[1] = [style |-> <<>>, domain |-> <<>>, variation |-> <<>>]
        /\ aliasName = <<>>
        /\ \A i \in 1..Len(calls) : calls[i].path = <<>>
        /\ Len(trio) = 1 => trio[1].domain = <<>> /\ trio[1].style = <<>>

C6_Witness ==
    /\ Len(trio) = 1
    /\ lines = <<Ann("domain:", <<"D2">>), Ann("style:", <<"S2">>)>>
    /\ calls = <<[site |-> "style", path |-> <<"S2">>],
                 [site |-> "domain", path |-> <<"D2">>]>>

\* the diagnostics of the two reads, in the order style, domain
SeqNodes ==
    (IF vault[res[1].style] # "file" THEN <<FailureNode(res[1].style)>> ELSE <<>>)
    \o (IF vault[res[1].domain] # "file" THEN <<FailureNode(res[1].domain)>> ELSE <<>>)

ExpectedTrio ==
    TrioOf(source, ExpectedBody(res[1].style), ExpectedBody(res[1].domain),
           res[1].variation)

C8_AtMostOnePattern ==
    \A i \in 1..Len(lines) : i < idx => Cardinality(MatchedTags(lines[i])) <= 1

\* C8 as amended: a line may match several patterns; processing a line
\* changes only accumulators of tag kinds whose pattern the line matches
\* (domain and style being accumulators of the alias kind as well), and a
\* line that matches the domain or style pattern and not the alias pattern
\* sets that accumulator to its own trimmed value.
C8_UpdatesOnlyMatchedKinds ==
    [][idx' = idx + 1 =>
        LET l == lines[idx]
            m == MatchedTags(l)
        IN  /\ domain' # domain => "domain:" \in m \/ "alias:" \in m
            /\ style' # style => "style:" \in m \/ "alias:" \in m
            /\ variation' # variation => "variation:" \in m
            /\ aliasName' # aliasName => "alias:" \in m
            /\ ("domain:" \in m /\ "alias:" \notin m) =>
                 domain' = Trim(domainRegex(l).group)
            /\ ("style:" \in m /\ "alias:" \notin m) =>
                 style' = Trim(styleRegex(l).group)]_vars

C8_Witness ==
    /\ idx = 2
    /\ MatchedTags(lines[1]) = {"domain:", "style:"}
    /\ domain = <<"D2", " ", "--", " ", "style:", " ", "S2">>
    /\ style = <<"S2">>

\* C9: when extractMetadata has built its record, the callback has run on
\* every line, and the record is the accumulators after the last line.
C9_RecordAfterAllLines ==
    Len(res) = 1 =>
        /\ idx > Len(lines)
        /\ res[1] = [style |-> style, domain |-> domain, variation |-> variation]
        /\ Acc = RunCallbacks(InitialAcc, lines)

C9_Witness ==
    /\ Len(res) = 1
    /\ Len(lines) = 2
    /\ MatchedTags(lines[2]) = {"domain:"}
    /\ res[1].domain = <<"D2">>

\* C10: every Add Alias inserts a key that was not in the table: one more
\* entry, and the entries that were there keep their domain and style.
C10_AddInsertsFreshKey ==
    [][AddAlias =>
        /\ newAliasName \notin Keys
        /\ Cardinality(DOMAIN aliases') = Cardinality(Keys) + 1
        /\ \A k \in Keys : aliases'[k] = aliases[k]]_vars

====
